---- MODULE Spec2Model ----
(***************************************************************************)
(* hl_seed_trade.py: the command-line helper that sets leverage and places *)
(* an immediate-or-cancel order through the exchange's REST client.        *)
(*                                                                         *)
(* Python values are records tagged with `kind`:                           *)
(*   "missing"  a key that is absent from a mapping                        *)
(*   "null"     None          "num"  a number                             *)
(*   "str"      a string; `s` holds a text compared only for equality,     *)
(*              `chars` a tuple of characters (substring tests),           *)
(*              `of` the value that str() was applied to                   *)
(*   "list"     a list (`items`)    "dict"  a mapping (one field per key)  *)
(*   "exc"      an exception object (`type`)                               *)
(* A call either returns a value or raises: [raised, value].               *)
(***************************************************************************)
EXTENDS Integers, Sequences, FiniteSets, TLC

VARIABLES
    argv,          \* the command line: one tuple of given values per option
    args,          \* the parsed namespace (main, line 129)
    pc,            \* position of the process in main / the chosen action
    lev_result,    \* do_seed_trade / do_set_leverage: the leverage response
    order_result,  \* do_seed_trade / do_close_position: the order response
    exc,           \* the exception bound by `except Exception as e`
    result,        \* main: the result dict
    calls,         \* the remote calls issued so far, in order
    exchLeverage,  \* the leverage the exchange holds for the account
    stdout,        \* lines written to standard output
    exitCode,      \* the process exit code
    respA,         \* classifier check: an order response
    respB,         \* classifier check: respA with other entries after the first
    outA,          \* parse_order_result(respA)
    outB           \* parse_order_result(respB)

vars == <<argv, args, pc, lev_result, order_result, exc, result, calls,
          exchLeverage, stdout, exitCode, respA, respB, outA, outB>>

-----------------------------------------------------------------------------
(* Bounds of the model *)

\* longest per-order status list of an order response
MaxStatuses == 3

\* longest --is-buy text drawn from OtherLetters
MaxLen == 4

-----------------------------------------------------------------------------
(* Python values *)

Missing == [kind |-> "missing"]
None == [kind |-> "null"]
Num == [kind |-> "num"]
Txt(s) == [kind |-> "str", s |-> s]
StrChars(cs) == [kind |-> "str", chars |-> cs]
List(items) == [kind |-> "list", items |-> items]
EmptyDict == [kind |-> "dict"]
Exc(t) == [kind |-> "exc", type |-> t]

\* str(v)
Str(v) == [kind |-> "str", of |-> v]

Return(v) == [raised |-> FALSE, value |-> v]
Raise(t) == [raised |-> TRUE, value |-> Exc(t)]

\* whether v.get exists: only mappings have it, anything else raises
\* AttributeError
HasGet(v) == v.kind = "dict"

\* d.get(k, default) on a mapping
Get(d, k, default) ==
    IF k \in DOMAIN d /\ d[k] # Missing THEN d[k] ELSE default

\* bool(v)
Truthy(v) ==
    CASE v.kind = "null" -> FALSE
      [] v.kind = "list" -> v.items # <<>>
      [] v.kind = "str" -> IF "chars" \in DOMAIN v THEN v.chars # <<>> ELSE TRUE
      [] v.kind = "dict" -> \E k \in DOMAIN v \ {"kind"} : v[k] # Missing
      [] OTHER -> TRUE

\* v[0]
Subscript0(v) ==
    CASE v.kind = "list" -> Return(v.items[1])
      [] v.kind = "str" -> Return(StrChars(<<v.chars[1]>>))
      [] v.kind = "dict" -> Raise("KeyError")
      [] OTHER -> Raise("TypeError")

KeyChars ==
    [filled |-> <<"f", "i", "l", "l", "e", "d">>,
     resting |-> <<"r", "e", "s", "t", "i", "n", "g">>,
     error |-> <<"e", "r", "r", "o", "r">>]

IsSubstring(needle, hay) ==
    \E i \in 1..(Len(hay) - Len(needle) + 1) :
        SubSeq(hay, i, i + Len(needle) - 1) = needle

\* `k in v`: key of a mapping, element of a list, substring of a string
Contains(k, v) ==
    CASE v.kind = "dict" -> Return(k \in DOMAIN v /\ v[k] # Missing)
      [] v.kind = "list" -> Return(\E i \in 1..Len(v.items) : v.items[i] = Txt(k))
      [] v.kind = "str" -> Return(IsSubstring(KeyChars[k], v.chars))
      [] OTHER -> Raise("TypeError")

\* v[k] for a string key k
SubscriptKey(v, k) ==
    CASE v.kind = "dict" ->
            IF k \in DOMAIN v /\ v[k] # Missing THEN Return(v[k]) ELSE Raise("KeyError")
      [] OTHER -> Raise("TypeError")

-----------------------------------------------------------------------------
(* parse_order_result *)

filled_result(fill) ==
    [status |-> "filled",
     avg_price |-> Get(fill, "avgPx", Txt("0")),
     total_size |-> Get(fill, "totalSz", Txt("0"))]

resting_result(entry) == [status |-> "resting", detail |-> Str(entry)]

\* the exchange-side rejection tagged like a failed placement
rejected_result_as_placement(err) ==
    [status |-> "error", step |-> "place_order", detail |-> err]

rejected_result(err) == [status |-> "error", step |-> "order_rejected", detail |-> err]

no_fill_result(statuses) == [status |-> "no_fill", detail |-> Str(statuses)]

place_order_error(order) ==
    [status |-> "error", step |-> "place_order", detail |-> Str(order)]

\* the if/elif chain with the resting test ahead of the filled test
classify_entry_resting_first(statuses, entry) ==
    LET inResting == Contains("resting", entry) IN
    IF inResting.raised THEN inResting
    ELSE IF inResting.value
    THEN Return(resting_result(entry))
    ELSE IF Contains("filled", entry).value
    THEN LET fill == SubscriptKey(entry, "filled") IN
         IF fill.raised THEN fill
         ELSE IF ~HasGet(fill.value) THEN Raise("AttributeError")
         ELSE Return(filled_result(fill.value))
    ELSE IF Contains("error", entry).value
    THEN LET err == SubscriptKey(entry, "error") IN
         IF err.raised THEN err ELSE Return(rejected_result(err.value))
    ELSE Return(no_fill_result(statuses))

\* lines 101-113 once statuses is truthy: the if/elif chain on statuses[0]
classify_entry(statuses, entry) ==
    LET inFilled == Contains("filled", entry) IN
    IF inFilled.raised THEN inFilled
    ELSE IF inFilled.value
    THEN LET fill == SubscriptKey(entry, "filled") IN
         IF fill.raised THEN fill
         ELSE IF ~HasGet(fill.value) THEN Raise("AttributeError")
         ELSE Return(filled_result(fill.value))
    ELSE IF Contains("resting", entry).value
    THEN Return(resting_result(entry))
    ELSE IF Contains("error", entry).value
    THEN LET err == SubscriptKey(entry, "error") IN
         IF err.raised THEN err ELSE Return(rejected_result(err.value))
    ELSE Return(no_fill_result(statuses))

\* the classification taken from the last entry instead of the first
classify_statuses_last(statuses) ==
    IF ~Truthy(statuses) THEN Return(no_fill_result(statuses))
    ELSE IF statuses.kind = "list"
    THEN classify_entry(statuses, statuses.items[Len(statuses.items)])
    ELSE LET first == Subscript0(statuses) IN
         IF first.raised THEN first ELSE classify_entry(statuses, first.value)

\* lines 100-113: the branch taken on the per-order status list
classify_statuses(statuses) ==
    IF ~Truthy(statuses) THEN Return(no_fill_result(statuses))
    ELSE LET first == Subscript0(statuses) IN
         IF first.raised THEN first ELSE classify_entry(statuses, first.value)

\* the lookups written order["response"]["data"]["statuses"]: an absent key
\* raises KeyError
parse_order_result_strict(order) ==
    IF ~HasGet(order) THEN Raise("AttributeError")
    ELSE IF Get(order, "status", None) # Txt("ok")
    THEN Return(place_order_error(order))
    ELSE LET response == SubscriptKey(order, "response") IN
         IF response.raised THEN response
         ELSE LET data == SubscriptKey(response.value, "data") IN
              IF data.raised THEN data
              ELSE LET statuses == SubscriptKey(data.value, "statuses") IN
                   IF statuses.raised THEN statuses
                   ELSE classify_statuses(statuses.value)

parse_order_result(order) ==
    IF ~HasGet(order) THEN Raise("AttributeError")
    ELSE IF Get(order, "status", None) # Txt("ok")
    THEN Return(place_order_error(order))
    ELSE LET response == Get(order, "response", EmptyDict) IN
         IF ~HasGet(response) THEN Raise("AttributeError")
         ELSE LET data == Get(response, "data", EmptyDict) IN
              IF ~HasGet(data) THEN Raise("AttributeError")
              ELSE classify_statuses(Get(data, "statuses", List(<<>>)))

-----------------------------------------------------------------------------
(* The replies the remote service can give *)

FillValues ==
    {None} \cup
    {[kind |-> "dict", avgPx |-> a, totalSz |-> t] :
        a \in {Missing, Txt("67010.5")}, t \in {Missing, Txt("0.001")}}

DictEntries ==
    {[kind |-> "dict", filled |-> f, resting |-> r, error |-> e] :
        f \in {Missing} \cup FillValues,
        r \in {Missing, [kind |-> "dict", oid |-> Num]},
        e \in {Missing, Txt("Order could not be fully filled")}}

ListEntries ==
    {List(<<Txt(w)>>) : w \in {"filled", "resting", "error", "waitingForFill"}}

StrEntries ==
    {StrChars(<<"w", "a", "i", "t", "i", "n", "g", "F", "o", "r", "F", "i", "l", "l">>),
     StrChars(KeyChars.resting),
     StrChars(KeyChars.filled)}

Entries == DictEntries \cup ListEntries \cup StrEntries \cup {None}

\* the entries that may follow the first one
TailEntries ==
    {[kind |-> "dict", filled |-> [kind |-> "dict", avgPx |-> Txt("1.5"), totalSz |-> Txt("2")],
      resting |-> Missing, error |-> Missing],
     [kind |-> "dict", filled |-> Missing, resting |-> Missing, error |-> Txt("Insufficient margin")],
     None}

Tails == UNION {[1..m -> TailEntries] : m \in 0..(MaxStatuses - 1)}

StatusLists ==
    {List(<<>>)} \cup {List(<<e>> \o t) : e \in Entries, t \in Tails}

StatusesValues ==
    {Missing, None, Num, StrChars(<<"o", "k">>), [kind |-> "dict", a |-> Num]}
    \cup StatusLists

DataValues ==
    {Missing, None} \cup {[kind |-> "dict", statuses |-> s] : s \in StatusesValues}

ResponseValues ==
    {Missing, None, Txt("Invalid order")} \cup
    {[kind |-> "dict", type |-> Txt("order"), data |-> d] : d \in DataValues}

TopStatus == {Missing, Txt("ok"), Txt("err")}

OrderResponses ==
    {None} \cup
    {[kind |-> "dict", status |-> s, response |-> r] :
        s \in TopStatus, r \in ResponseValues}

LeverageResponses ==
    {None} \cup
    {[kind |-> "dict", status |-> s, response |-> r] :
        s \in TopStatus, r \in {Missing, Txt("Invalid leverage")}}

\* the per-order status list of a response, when it has a non-empty one
HasEntries(r) ==
    /\ r.kind = "dict"
    /\ r.response.kind = "dict"
    /\ r.response.data.kind = "dict"
    /\ r.response.data.statuses.kind = "list"
    /\ r.response.data.statuses.items # <<>>

EntriesOf(r) == r.response.data.statuses.items

WithEntries(r, items) == [r EXCEPT !.response.data.statuses.items = items]

\* r with the entries after the first replaced
TailVariants(r) ==
    IF HasEntries(r)
    THEN {WithEntries(r, <<EntriesOf(r)[1]>> \o t) : t \in Tails}
    ELSE {r}

Pending == [raised |-> FALSE, value |-> Missing]

-----------------------------------------------------------------------------
(* main: the argument parser, lines 119-129 *)

DefaultLeverage == 10

Digits == <<"0", "1", "2", "3", "4", "5", "6", "7", "8", "9">>

IsDigit(c) == \E d \in 1..Len(Digits) : Digits[d] = c

DigitValue(c) == (CHOOSE d \in 1..Len(Digits) : Digits[d] = c) - 1

RECURSIVE DigitsValue(_)
DigitsValue(cs) ==
    IF cs = <<>> THEN 0
    ELSE 10 * DigitsValue(SubSeq(cs, 1, Len(cs) - 1)) + DigitValue(cs[Len(cs)])

AllDigits(cs) == cs # <<>> /\ \A i \in 1..Len(cs) : IsDigit(cs[i])

\* int(text): an optional sign and decimal digits, else ValueError
ParseInt(cs) ==
    IF cs # <<>> /\ cs[1] \in {"-", "+"} /\ AllDigits(Tail(cs))
    THEN Return((IF cs[1] = "-" THEN -1 ELSE 1) * DigitsValue(Tail(cs)))
    ELSE IF AllDigits(cs) THEN Return(DigitsValue(cs))
    ELSE Raise("ValueError")

\* float(text) on plain decimals: digits with at most one point, kept as
\* <<integer part, fraction digits>>; anything else is a ValueError
ParseFloat(cs) ==
    LET dots == {i \in 1..Len(cs) : cs[i] = "."} IN
    IF dots = {} /\ AllDigits(cs) THEN Return(<<DigitsValue(cs), <<>>>>)
    ELSE IF Cardinality(dots) = 1
    THEN LET d == CHOOSE i \in dots : TRUE
             ip == SubSeq(cs, 1, d - 1)
             fp == SubSeq(cs, d + 1, Len(cs))
         IN IF /\ ip \o fp # <<>>
               /\ \A i \in 1..Len(ip) : IsDigit(ip[i])
               /\ \A i \in 1..Len(fp) : IsDigit(fp[i])
            THEN Return(<<DigitsValue(ip), fp>>)
            ELSE Raise("ValueError")
    ELSE Raise("ValueError")

UpperOf ==
    [t |-> "T", r |-> "R", u |-> "U", e |-> "E", f |-> "F", a |-> "A",
     l |-> "L", s |-> "S", y |-> "Y"]

\* str.lower() on one character
LowerChar(c) ==
    IF \E k \in DOMAIN UpperOf : UpperOf[k] = c
    THEN CHOOSE k \in DOMAIN UpperOf : UpperOf[k] = c
    ELSE c

Lower(cs) == [i \in 1..Len(cs) |-> LowerChar(cs[i])]

\* the comparison without lower()
is_buy_type_case_sensitive(x) == x = <<"t", "r", "u", "e">>

\* line 125: type=lambda x: x.lower() == "true"
is_buy_type(x) == Lower(x) = <<"t", "r", "u", "e">>

ActionChoices == {"set_leverage", "seed_trade", "close_position"}

\* parser.parse_args(): the namespace, or the usage error that ends the
\* process (SystemExit, code 2). An option that is not given takes its
\* default, which `type` is not applied to.
parse_args(av) ==
    LET leverage == IF av.leverage = <<>> THEN Return(DefaultLeverage)
                    ELSE ParseInt(av.leverage[1])
        is_buy == IF av.is_buy = <<>> THEN TRUE ELSE is_buy_type(av.is_buy[1])
        size == IF av.size = <<>> THEN Return(<<0, <<>>>>) ELSE ParseFloat(av.size[1])
        price == IF av.price = <<>> THEN Return(<<0, <<>>>>) ELSE ParseFloat(av.price[1])
    IN IF \/ av.action = <<>>
          \/ av.action[1] \notin ActionChoices
          \/ av.key = <<>>
          \/ leverage.raised
          \/ size.raised
          \/ price.raised
       THEN Raise("SystemExit")
       ELSE Return([action |-> av.action[1],
                    key |-> av.key[1],
                    hl_url |-> IF av.hl_url = <<>> THEN "https://api.hyperliquid.xyz"
                               ELSE av.hl_url[1],
                    asset |-> IF av.asset = <<>> THEN "BTC" ELSE av.asset[1],
                    leverage |-> leverage.value,
                    is_buy |-> is_buy,
                    size |-> size.value,
                    price |-> price.value])

-----------------------------------------------------------------------------
(* The three actions, lines 40-93 *)

\* the except clause with the step tag left out everywhere
except_result_untagged(action, e) == [status |-> "error", detail |-> Str(e)]

\* the except clause handing on the exception object instead of str(e)
except_result_raw(action, e) ==
    IF action = "set_leverage"
    THEN [status |-> "error", detail |-> e]
    ELSE [status |-> "error", step |-> "exception", detail |-> e]

\* lines 50, 74, 93: the except clause of each action
except_result(action, e) ==
    IF action = "set_leverage"
    THEN [status |-> "error", detail |-> Str(e)]
    ELSE [status |-> "error", step |-> "exception", detail |-> Str(e)]

\* do_set_leverage, lines 45-48
set_leverage_result(lev) ==
    IF ~HasGet(lev) THEN Raise("AttributeError")
    ELSE IF Get(lev, "status", None) = Txt("ok")
    THEN Return([status |-> "ok"])
    ELSE Return([status |-> "error", detail |-> Str(lev)])

\* do_seed_trade going on to the order whatever the leverage response says
seed_leverage_check_ignored(lev) ==
    IF ~HasGet(lev) THEN Raise("AttributeError") ELSE Return(Missing)

\* do_seed_trade, lines 60-61: the early return, or Missing to go on to the
\* order step
seed_leverage_check(lev) ==
    IF ~HasGet(lev) THEN Raise("AttributeError")
    ELSE IF Get(lev, "status", None) # Txt("ok")
    THEN Return([status |-> "error", step |-> "set_leverage", detail |-> Str(lev)])
    ELSE Return(Missing)

\* what the action does with the leverage response
after_leverage(action, lev) ==
    IF action = "set_leverage" THEN set_leverage_result(lev)
    ELSE seed_leverage_check(lev)

\* every action starting with the leverage call
first_call_always_leverage(action) == "update_leverage"

\* the position after client construction: do_close_position makes no
\* leverage call
first_call(action) ==
    IF action = "close_position" THEN "order" ELSE "update_leverage"

\* json.dumps: exception objects are not serialisable, JSON values are
RECURSIVE Serializable(_)
Serializable(v) ==
    CASE v.kind = "exc" -> FALSE
      [] v.kind = "list" -> \A i \in 1..Len(v.items) : Serializable(v.items[i])
      [] v.kind = "dict" -> \A k \in DOMAIN v \ {"kind"} : Serializable(v[k])
      [] OTHER -> TRUE

json_dumps(res) ==
    IF \A k \in DOMAIN res \ {"status", "step"} : Serializable(res[k])
    THEN Return([kind |-> "json", of |-> res])
    ELSE Raise("TypeError")

-----------------------------------------------------------------------------
(* The process *)

\* line 129
main_parse_args ==
    /\ pc = "start"
    /\ LET parsed == parse_args(argv) IN
       IF parsed.raised
       THEN /\ exitCode' = 2
            /\ pc' = "exit"
            /\ args' = args
       ELSE /\ args' = parsed.value
            /\ pc' = "make_exchange"
            /\ exitCode' = exitCode
    /\ UNCHANGED <<argv, lev_result, order_result, exc, result, calls,
                   exchLeverage, stdout, respA, respB, outA, outB>>

\* lines 27-31, called at lines 43, 56, 80
make_exchange ==
    /\ pc = "make_exchange"
    /\ \E out \in {Return(None), Raise("ValueError"), Raise("ConnectionError")} :
         IF out.raised
         THEN /\ exc' = out.value
              /\ result' = except_result(args.action, out.value)
              /\ pc' = "print"
         ELSE /\ pc' = first_call(args.action)
              /\ UNCHANGED <<exc, result>>
    /\ UNCHANGED <<argv, args, lev_result, order_result, calls, exchLeverage,
                   stdout, exitCode, respA, respB, outA, outB>>

\* the replies to exchange.update_leverage and whether the exchange applied
\* the change: an ok reply means applied, a non-ok mapping means refused, a
\* raise or an unreadable reply leaves both possible
LeverageCalls ==
    {[out |-> Return(r), applied |-> Get(r, "status", None) = Txt("ok")] :
        r \in LeverageResponses \ {None}}
    \cup {[out |-> o, applied |-> a] :
            o \in {Return(None), Raise("ClientError")}, a \in BOOLEAN}

\* lines 44-48 and 59-61
update_leverage ==
    /\ pc = "update_leverage"
    /\ calls' = Append(calls, [op |-> "update_leverage", leverage |-> args.leverage,
                               asset |-> args.asset, is_cross |-> TRUE])
    /\ \E c \in LeverageCalls :
         /\ exchLeverage' = IF c.applied THEN args.leverage ELSE exchLeverage
         /\ IF c.out.raised
            THEN /\ exc' = c.out.value
                 /\ result' = except_result(args.action, c.out.value)
                 /\ pc' = "print"
                 /\ lev_result' = lev_result
            ELSE /\ lev_result' = c.out.value
                 /\ LET next == after_leverage(args.action, c.out.value) IN
                    IF next.raised
                    THEN /\ exc' = next.value
                         /\ result' = except_result(args.action, next.value)
                         /\ pc' = "print"
                    ELSE IF next.value = Missing
                    THEN /\ pc' = "order"
                         /\ UNCHANGED <<exc, result>>
                    ELSE /\ result' = next.value
                         /\ pc' = "print"
                         /\ exc' = exc
    /\ UNCHANGED <<argv, args, order_result, stdout, exitCode,
                   respA, respB, outA, outB>>

\* the order step undoing the leverage change when the order call raises
order_with_rollback ==
    /\ pc = "order"
    /\ \E out \in {Return(r) : r \in OrderResponses} \cup {Raise("ClientError")} :
         IF out.raised
         THEN /\ exc' = out.value
              /\ result' = except_result(args.action, out.value)
              /\ order_result' = order_result
              /\ calls' = calls \o
                    <<[op |-> "order", asset |-> args.asset, is_buy |-> args.is_buy,
                       size |-> args.size, price |-> args.price, tif |-> "Ioc"]>>
                    \o (IF args.action = "seed_trade"
                        THEN <<[op |-> "update_leverage", leverage |-> 1,
                                asset |-> args.asset, is_cross |-> TRUE]>>
                        ELSE <<>>)
              /\ exchLeverage' = IF args.action = "seed_trade" THEN 1 ELSE exchLeverage
         ELSE /\ order_result' = out.value
              /\ calls' = Append(calls, [op |-> "order", asset |-> args.asset,
                                         is_buy |-> args.is_buy, size |-> args.size,
                                         price |-> args.price, tif |-> "Ioc"])
              /\ exchLeverage' = exchLeverage
              /\ LET parsed == parse_order_result(out.value) IN
                 IF parsed.raised
                 THEN /\ exc' = parsed.value
                      /\ result' = except_result(args.action, parsed.value)
                 ELSE /\ result' = parsed.value
                      /\ exc' = exc
    /\ pc' = "print"
    /\ UNCHANGED <<argv, args, lev_result, stdout, exitCode,
                   respA, respB, outA, outB>>

\* lines 64-72 and 83-91
order ==
    /\ pc = "order"
    /\ calls' = Append(calls, [op |-> "order", asset |-> args.asset,
                               is_buy |-> args.is_buy, size |-> args.size,
                               price |-> args.price, tif |-> "Ioc"])
    /\ \E out \in {Return(r) : r \in OrderResponses} \cup {Raise("ClientError")} :
         IF out.raised
         THEN /\ exc' = out.value
              /\ result' = except_result(args.action, out.value)
              /\ order_result' = order_result
         ELSE /\ order_result' = out.value
              /\ LET parsed == parse_order_result(out.value) IN
                 IF parsed.raised
                 THEN /\ exc' = parsed.value
                      /\ result' = except_result(args.action, parsed.value)
                 ELSE /\ result' = parsed.value
                      /\ exc' = exc
    /\ pc' = "print"
    /\ UNCHANGED <<argv, args, lev_result, exchLeverage, stdout, exitCode,
                   respA, respB, outA, outB>>

\* line 140; an exception here ends the process with a traceback, code 1
main_print ==
    /\ pc = "print"
    /\ LET line == json_dumps(result) IN
       IF line.raised
       THEN /\ exitCode' = 1
            /\ stdout' = stdout
       ELSE /\ stdout' = Append(stdout, line.value)
            /\ exitCode' = 0
    /\ pc' = "exit"
    /\ UNCHANGED <<argv, args, lev_result, order_result, exc, result, calls,
                   exchLeverage, respA, respB, outA, outB>>

-----------------------------------------------------------------------------
(* Command lines *)

Argv(action, key, leverage, is_buy, size, price) ==
    [action |-> action, key |-> key, hl_url |-> <<>>, asset |-> <<>>,
     leverage |-> leverage, is_buy |-> is_buy, size |-> size, price |-> price]

FalseText == <<"f", "a", "l", "s", "e">>
TrueText == <<"t", "r", "u", "e">>

RunArgvs ==
    {Argv(a, k, l, b, s, p) :
        a \in {<<>>, <<"bogus">>} \cup {<<c>> : c \in ActionChoices},
        k \in {<<>>, <<"0xabc">>},
        l \in {<<>>, << <<"5">> >>, << <<"x">> >>},
        b \in {<<>>, <<FalseText>>},
        s \in {<<>>, << <<"0", ".", "0", "0", "1">> >>},
        p \in {<< <<"6", "7", "0", "0", "0">> >>, << <<"6", "7", ".", ".">> >>}}

InitNoPair ==
    /\ respA = None
    /\ respB = None
    /\ outA = Pending
    /\ outB = Pending

InitProcess ==
    /\ args = Missing
    /\ lev_result = Missing
    /\ order_result = Missing
    /\ exc = Missing
    /\ result = Missing
    /\ calls = <<>>
    /\ exchLeverage = 0
    /\ stdout = <<>>
    /\ exitCode = -1

Init ==
    /\ argv \in RunArgvs
    /\ pc = "start"
    /\ InitProcess
    /\ InitNoPair

Next ==
    \/ main_parse_args
    \/ make_exchange
    \/ update_leverage
    \/ order
    \/ main_print

Spec == Init /\ [][Next]_vars

-----------------------------------------------------------------------------
(* Properties of one run (Spec) *)

Action == IF args = Missing THEN "none" ELSE args.action

Finished == pc \in {"print", "exit"}

\* the response is a mapping whose status is not "ok" (absent included)
NotOk(r) == r # Missing /\ HasGet(r) /\ Get(r, "status", None) # Txt("ok")

IsOk(r) == r # Missing /\ HasGet(r) /\ Get(r, "status", None) = Txt("ok")

CallsOf(op) == {i \in 1..Len(calls) : calls[i].op = op}

\* C1: in seed_trade, when the leverage-update response has a status other
\* than "ok", no order call is issued and the result is exactly
\* {status: "error", step: "set_leverage", detail: str(response)}, without
\* avg_price or total_size.
C1_LeverageFailureStopsSeedTrade ==
    (Action = "seed_trade" /\ NotOk(lev_result)) =>
        /\ CallsOf("order") = {}
        /\ Finished
        /\ DOMAIN result = {"status", "step", "detail"}
        /\ result.status = "error"
        /\ result.step = "set_leverage"
        /\ result.detail = Str(lev_result)

C1_Witness ==
    /\ pc = "exit"
    /\ Action = "seed_trade"
    /\ NotOk(lev_result)
    /\ Get(lev_result, "status", None) = Txt("err")
    /\ result.step = "set_leverage"

\* C2: an exception raised by client construction, by the leverage call, by
\* the order call or while reading a response never leaves the action: the
\* result is {status: "error", detail: str(e)}, with step "exception" in
\* seed_trade and close_position and without a step in set_leverage, and the
\* process still prints it and exits 0.
C2_ExceptionsBecomeResults ==
    exc # Missing =>
        /\ Finished
        /\ result.status = "error"
        /\ result.detail = Str(exc)
        /\ IF Action = "set_leverage"
           THEN DOMAIN result = {"status", "detail"}
           ELSE DOMAIN result = {"status", "step", "detail"} /\ result.step = "exception"
        /\ pc = "exit" => exitCode = 0 /\ Len(stdout) = 1

C2_Witness ==
    /\ pc = "exit"
    /\ Action = "close_position"
    /\ exc = Exc("TypeError")
    /\ IsOk(order_result)
    /\ result.step = "exception"

\* the command line argparse accepts
WellFormed(av) ==
    /\ av.action # <<>> /\ av.action[1] \in ActionChoices
    /\ av.key # <<>>
    /\ av.leverage # <<>> => ~ParseInt(av.leverage[1]).raised
    /\ av.size # <<>> => ~ParseFloat(av.size[1]).raised
    /\ av.price # <<>> => ~ParseFloat(av.price[1]).raised

\* C3: a run with well-formed arguments ends with exit code 0 and exactly one
\* line of JSON (the result) on standard output, whatever the service
\* returned or raised; only malformed arguments give a non-zero exit; and no
\* run stops before it has exited.
C3_ExitZeroOneJsonLine ==
    /\ pc = "exit" =>
         IF WellFormed(argv)
         THEN /\ exitCode = 0
              /\ stdout = <<[kind |-> "json", of |-> result]>>
         ELSE /\ exitCode # 0
              /\ stdout = <<>>
    /\ pc # "exit" => stdout = <<>> /\ ENABLED Next

C3_Witness ==
    /\ pc = "exit"
    /\ WellFormed(argv)
    /\ exc = Exc("ClientError")
    /\ exitCode = 0
    /\ Len(stdout) = 1

\* C9: set_leverage issues at most one leverage call and no order call;
\* close_position at most one order call and no leverage call; seed_trade at
\* most one of each, the order call only after the leverage call returned;
\* nothing is called twice, and nothing is called when client construction
\* failed.
C9_CallsBoundedAndOrdered ==
    /\ Cardinality(CallsOf("update_leverage")) <= 1
    /\ Cardinality(CallsOf("order")) <= 1
    /\ Action = "none" => calls = <<>>
    /\ Action = "set_leverage" => CallsOf("order") = {}
    /\ Action = "close_position" => CallsOf("update_leverage") = {}
    /\ (Action = "seed_trade" /\ CallsOf("order") # {}) =>
          /\ Len(calls) = 2
          /\ calls[1].op = "update_leverage"
          /\ calls[2].op = "order"
          /\ IsOk(lev_result)
    /\ (exc # Missing /\ exc.type \in {"ValueError", "ConnectionError"}) => calls = <<>>

C9_Witness ==
    /\ pc = "exit"
    /\ Action = "seed_trade"
    /\ Len(calls) = 2
    /\ calls[1].op = "update_leverage"
    /\ calls[2].op = "order"

\* C10: in seed_trade, once the leverage call has succeeded, whatever the
\* order step does, there is exactly one leverage call and the exchange keeps
\* the requested leverage; when the order call raises, the result is
\* {status: "error", step: "exception", detail: str(e)}.
C10_NoRollback ==
    (Action = "seed_trade" /\ IsOk(lev_result)) =>
        /\ exchLeverage = args.leverage
        /\ Cardinality(CallsOf("update_leverage")) = 1
        /\ (exc # Missing /\ exc.type = "ClientError") =>
              /\ result.status = "error"
              /\ "step" \in DOMAIN result /\ result.step = "exception"
              /\ result.detail = Str(exc)

C10_Witness ==
    /\ pc = "exit"
    /\ Action = "seed_trade"
    /\ IsOk(lev_result)
    /\ exc = Exc("ClientError")
    /\ Len(calls) = 2
    /\ exchLeverage = args.leverage
    /\ exchLeverage # 0


\* the response body and its data are each absent or a mapping
BodyReadable(r) ==
    \/ r.response = Missing
    \/ /\ r.response.kind = "dict"
       /\ \/ r.response.data = Missing
          \/ r.response.data.kind = "dict"

\* the value under "statuses" of a response whose body is readable, Missing
\* when there is none
StatusesOf(r) ==
    IF r.response = Missing THEN Missing
    ELSE IF r.response.data = Missing THEN Missing
    ELSE r.response.data.statuses

HasNone(e) ==
    CASE e.kind = "dict" -> e.filled = Missing /\ e.resting = Missing /\ e.error = Missing
      [] e.kind = "list" ->
            \A i \in 1..Len(e.items) : e.items[i] \notin {Txt(k) : k \in DOMAIN KeyChars}
      [] e.kind = "str" -> \A k \in DOMAIN KeyChars : ~IsSubstring(KeyChars[k], e.chars)
      [] OTHER -> FALSE

\* the first entry is a mapping with a filled, resting or error sub-record
RecognisedSubStatus(r) ==
    /\ BodyReadable(r)
    /\ StatusesOf(r).kind = "list"
    /\ StatusesOf(r).items # <<>>
    /\ StatusesOf(r).items[1].kind = "dict"
    /\ ~HasNone(StatusesOf(r).items[1])

\* the classifier can read the response and finds none of the three
\* sub-records: no status list, an empty or null one, a string, or a list
\* whose first entry is a mapping, list or string holding none of them
ReadableNoSubStatus(r) ==
    /\ BodyReadable(r)
    /\ \/ StatusesOf(r).kind \in {"missing", "null", "str"}
       \/ /\ StatusesOf(r).kind = "list"
          /\ StatusesOf(r).items = <<>> \/ HasNone(StatusesOf(r).items[1])

\* a lookup of the classifier raises: the body or the data is no mapping, the
\* status list is a mapping or a number, or its first entry is None or a
\* number
Unreadable(r) ==
    \/ ~BodyReadable(r)
    \/ StatusesOf(r).kind \in {"dict", "num"}
    \/ /\ StatusesOf(r).kind = "list"
       /\ StatusesOf(r).items # <<>>
       /\ StatusesOf(r).items[1].kind \in {"null", "num"}

IsRejection(r) ==
    /\ IsOk(r)
    /\ RecognisedSubStatus(r)
    /\ StatusesOf(r).items[1].filled = Missing
    /\ StatusesOf(r).items[1].resting = Missing

HasStep(tag) == "step" \in DOMAIN result /\ result.step = tag

\* C7 as stated: in every action that makes the call, a non-ok leverage
\* response gives step "set_leverage", a non-ok order response step
\* "place_order", an ok order response whose first entry is a rejection step
\* "order_rejected".
C7_StepTagInEveryAction ==
    Finished =>
        /\ NotOk(lev_result) => HasStep("set_leverage")
        /\ NotOk(order_result) => HasStep("place_order")
        /\ (order_result # Missing /\ IsRejection(order_result)) =>
              HasStep("order_rejected")

\* C7 amended: the three tags are as stated in seed_trade and close_position;
\* in set_leverage a non-ok leverage response gives
\* {status: "error", detail: str(response)} with no step tag.
C7_StepTagOutsideSetLeverage ==
    Finished =>
        /\ (Action = "seed_trade" /\ NotOk(lev_result)) => HasStep("set_leverage")
        /\ (Action = "set_leverage" /\ NotOk(lev_result)) =>
              /\ DOMAIN result = {"status", "detail"}
              /\ result.status = "error"
              /\ result.detail = Str(lev_result)
        /\ NotOk(order_result) => HasStep("place_order")
        /\ (order_result # Missing /\ IsRejection(order_result)) =>
              HasStep("order_rejected")

C7_Witness ==
    /\ pc = "exit"
    /\ Action = "seed_trade"
    /\ order_result # Missing
    /\ IsRejection(order_result)
    /\ result.step = "order_rejected"

-----------------------------------------------------------------------------
(* The classifier on its own: parse_order_result applied to every response *)

InitClassifier ==
    /\ argv = <<>>
    /\ pc = "idle"
    /\ InitProcess
    /\ respA \in OrderResponses
    /\ respB \in TailVariants(respA)
    /\ outA = Pending
    /\ outB = Pending

Classify ==
    /\ pc = "idle"
    /\ outA = Pending
    /\ outA' = parse_order_result(respA)
    /\ outB' = parse_order_result(respB)
    /\ UNCHANGED <<argv, args, pc, lev_result, order_result, exc, result, calls,
                   exchLeverage, stdout, exitCode, respA, respB>>

NextClassifier == Classify

SpecClassifier == InitClassifier /\ [][NextClassifier]_vars

-----------------------------------------------------------------------------
(* Properties of the classifier (SpecClassifier) *)

\* the response has the documented shape: mappings down to a list of
\* mappings, a filled sub-record being a mapping too
Documented(r) ==
    /\ r.kind = "dict"
    /\ BodyReadable(r)
    /\ StatusesOf(r).kind \in {"missing", "list"}
    /\ (StatusesOf(r).kind = "list" /\ StatusesOf(r).items # <<>>) =>
          LET e == StatusesOf(r).items[1] IN
          /\ e.kind = "dict"
          /\ e.filled # Missing => e.filled.kind = "dict"

OrDefault(v) == IF v = Missing THEN Txt("0") ELSE v

\* the verdict by the priority filled > resting > error > no_fill
ByPriority(r) ==
    LET st == IF StatusesOf(r) = Missing THEN List(<<>>) ELSE StatusesOf(r) IN
    IF st.items = <<>> THEN [status |-> "no_fill", detail |-> Str(st)]
    ELSE LET e == st.items[1] IN
         IF e.filled # Missing
         THEN [status |-> "filled", avg_price |-> OrDefault(e.filled.avgPx),
               total_size |-> OrDefault(e.filled.totalSz)]
         ELSE IF e.resting # Missing THEN [status |-> "resting", detail |-> Str(e)]
         ELSE IF e.error # Missing
         THEN [status |-> "error", step |-> "order_rejected", detail |-> e.error]
         ELSE [status |-> "no_fill", detail |-> Str(st)]

Verdict(out) ==
    IF out.raised THEN [raised |-> TRUE, type |-> out.value.type]
    ELSE [raised |-> FALSE,
          status |-> out.value.status,
          step |-> IF "step" \in DOMAIN out.value THEN out.value.step ELSE "",
          avg_price |-> IF out.value.status = "filled" THEN out.value.avg_price ELSE None,
          total_size |-> IF out.value.status = "filled" THEN out.value.total_size ELSE None]

\* C6: two order responses with the same top-level status and the same first
\* entry, differing only in the entries after the first, get the same
\* verdict.
C6_OnlyFirstEntryCounts ==
    outA # Pending => Verdict(outA) = Verdict(outB)

C6_Witness ==
    /\ outA # Pending
    /\ HasEntries(respA)
    /\ Len(EntriesOf(respA)) = 1
    /\ Len(EntriesOf(respB)) = 2
    /\ EntriesOf(respB)[2].kind = "dict"
    /\ EntriesOf(respB)[2].filled # Missing
    /\ IsOk(respA)
    /\ ~outA.raised
    /\ outA.value.status = "error"
    /\ outB.value.status = "error"

-----------------------------------------------------------------------------
(* The argument parser on its own: --is-buy over every spelling *)

OtherLetters == {"t", "r", "u", "e", "E", "y", "1"}

\* every upper/lower-case spelling of a lower-case word
CaseVariants(w) ==
    {[i \in 1..Len(w) |-> IF i \in S THEN UpperOf[w[i]] ELSE w[i]] :
        S \in SUBSET (1..Len(w))}

IsBuyTexts ==
    CaseVariants(TrueText) \cup CaseVariants(FalseText)
    \cup UNION {[1..n -> OtherLetters] : n \in 0..MaxLen}

CliArgvs ==
    {Argv(<<"seed_trade">>, <<"0xabc">>, l, b, <<>>, <<>>) :
        l \in {<<>>, << <<"x">> >>},
        b \in {<<>>} \cup {<<t>> : t \in IsBuyTexts}}

InitCli ==
    /\ argv \in CliArgvs
    /\ pc = "start"
    /\ InitProcess
    /\ InitNoPair

NextCli == main_parse_args

SpecCli == InitCli /\ [][NextCli]_vars

-----------------------------------------------------------------------------
(* Properties of the argument parser (SpecCli) *)

\* C8 as stated: buy-side when --is-buy is omitted, sell-side when the value
\* is "false" in any letter case, buy-side for any other string.
C8_OnlyFalseSells ==
    args # Missing =>
        args.is_buy =
            (argv.is_buy = <<>> \/ argv.is_buy[1] \notin CaseVariants(FalseText))

\* C8 amended: buy-side when --is-buy is omitted or its value is "true" in
\* any letter case; sell-side for any other string, "false" included.
C8_OnlyTrueBuys ==
    args # Missing =>
        args.is_buy =
            (argv.is_buy = <<>> \/ argv.is_buy[1] \in CaseVariants(TrueText))

C8_Witness ==
    /\ args # Missing
    /\ argv.is_buy = << <<"1">> >>
    /\ args.is_buy = FALSE

====
